---------------------------- MODULE Spec2Model ----------------------------
(***************************************************************************)
(* A model of the consistent-hashing ring of src/index.js (HashRing).      *)
(*                                                                         *)
(* The state is the HashRing object: ring, size, servers, vnodes, cache    *)
(* and the three settings fixed by the constructor (vnode, replicas,       *)
(* algorithm).  Every method is a pure operator from a HashRing record to  *)
(* the HashRing record it leaves behind (lower-case, named as in the       *)
(* source) and an action that applies it to the variables (capitalised).   *)
(*                                                                         *)
(* Array indices are 0-based as in the source; At(s, i) reads s[i].        *)
(***************************************************************************)
EXTENDS Integers, Sequences, FiniteSets, TLC

VARIABLES
    ring,       \* this.ring: sequence of Node records [value, server]
    size,       \* this.size
    servers,    \* this.servers: sequence of [string, addr, weight, vnodes]
    vnodes,     \* this.vnodes: server id -> virtual node count
    cache,      \* this.cache: key -> server id (bounded by maxCacheSize)
    vnode,      \* this.vnode
    replicas,   \* this.replicas
    algorithm,  \* this.algorithm
    swaps,      \* the number of swap calls made so far
    last,       \* the last call made on the object: [op, a, b, known, kept],
                \* known: whether a was a server id,
                \* kept: whether an add found the object Built, a remove Settled;
                \* where an add and the remove after it are compared with the
                \* object before them (SpecGrow), also `before`: that object
    fh,         \* find: the hashValue argument
    low,        \* find: low
    high,       \* find: high
    fpc,        \* find: "idle", "loop" or "done"
    fres        \* find: the value returned, and the return statement taken

vars == <<swaps, ring, size, servers, vnodes, cache, vnode, replicas, algorithm,
          last, fh, low, high, fpc, fres>>

---------------------------------------------------------------------------
(* Bounds of the model *)

\* digest bytes range over 0..ByteMax (all below 128, where Buffer#toString
\* followed by charCodeAt returns the byte itself)
ByteMax == 1

\* the constructor is given at most MaxInit servers
MaxInit == 3
\* a digest function that throws does so within its first MaxThrowAt calls
\* of one rebuild
MaxThrowAt == 2

\* at most MaxSwaps calls of swap are made on one object
MaxSwaps == 1

\* rings given to find directly have at most MaxLen points ...
MaxLen == 4

\* ... with coordinates in 0..CoordMax, and are searched for 0..CoordMax+1
CoordMax == 3

\* server ids, lookup keys, weights and per-server vnode settings in use
Ids == {"a", "b", "c"}

Keys == {"k1", "k2"}

\* the keys looked up when a call is compared with the one before it
LookupKeys == {"k1", "k2", "k3", "k4", "k5", "k6"}

VnodeCounts == {2}

\* the constructor's (algorithm, options.compatibility) in use
Settings == {<<"h1", "">>, <<"h2", "hash_ring">>}

---------------------------------------------------------------------------
(* Helpers for JavaScript values *)

\* s[i] of a JavaScript array, 0-based (only read where i is in range)
At(s, i) == s[i + 1]

\* the value of a missing property
undefined == -1

\* options.maxCacheSize
maxCacheSize == 1

\* JavaScript truthiness of a number or undefined
Truthy(v) == v # undefined /\ v # 0

\* obj[k] = v
MapSet(f, k, v) == [x \in (DOMAIN f) \cup {k} |-> IF x = k THEN v ELSE f[x]]

\* delete obj[k]
MapDel(f, k) == [x \in (DOMAIN f) \ {k} |-> f[x]]

\* obj[k], undefined when k is no property of obj
MapGet(f, k) == IF k \in DOMAIN f THEN f[k] ELSE undefined

EmptyMap == [x \in {} |-> undefined]

\* the smaller of a and b
Least(a, b) == IF a < b THEN a ELSE b

\* the ids of a list of server records
IdsOf(srv) == {srv[i].string : i \in 1..Len(srv)}

---------------------------------------------------------------------------
(* Strings and the digest *)

\* the character codes of the strings in use
Chars(s) ==
    CASE s = "a" -> <<97>>
      [] s = "b" -> <<98>>
      [] s = "c" -> <<99>>
      [] s = "k1" -> <<107, 49>>
      [] s = "k2" -> <<107, 50>>
      [] s = "k3" -> <<107, 51>>
      [] s = "k4" -> <<107, 52>>
      [] s = "k5" -> <<107, 53>>
      [] s = "k6" -> <<107, 54>>

RECURSIVE Decimal(_)
\* the character codes of i + '' for an integer i >= 0
Decimal(i) ==
    IF i < 10 THEN <<48 + i>> ELSE Decimal(i \div 10) \o <<48 + (i % 10)>>

RECURSIVE Absorb(_, _, _)
\* a digest function's pass over its input
Absorb(acc, mult, chars) ==
    IF chars = <<>> THEN acc
    ELSE Absorb((acc * mult + Head(chars)) % 1009, mult, Tail(chars))

\* this.hash(key): 16 digest bytes, deterministic in the algorithm and the
\* input.  crypto's digests are replaced by two small functions in their
\* place (the source takes any function as the algorithm).
hash(alg, chars) ==
    LET mult == IF alg = "h1" THEN 31 ELSE 57
        acc  == Absorb(IF alg = "h1" THEN 7 ELSE 401, mult, chars)
        acc2 == (acc * 37 + 11) % 1013
    IN  [n \in 1..16 |->
            (((acc * (n + 2)) + (acc2 * (n * n + 1))) \div 5) % (ByteMax + 1)]

\* this.digest(key): the char codes of the digest read as a string; a byte
\* below 128 is its own char code
digest(alg, chars) == hash(alg, chars)

\* the native hashValue.hash(a, b, c, d)
hashvalue_hash(a, b, c, d) == a + b * 256 + c * 65536 + d * 16777216

\* this.hashValue(key)
hashValue(alg, key) ==
    LET x == digest(alg, Chars(key))
    IN  hashvalue_hash(At(x, 3), At(x, 2), At(x, 1), At(x, 0))

---------------------------------------------------------------------------
(* The continuum *)

\* new Node(hashvalue, server)
Node(hashvalue, server) == [value |-> hashvalue, server |-> server]

\* the comparator handed to Array#sort
sorted(a, b) == IF a.value < b.value THEN -1 ELSE IF a.value > b.value THEN 1 ELSE 0

\* the ring left as the loops placed it
sortSkipped(s) == s

\* a node at index `at` comes before another where the comparator says so,
\* and at its earlier index where the comparator returns 0
before(a, b) ==
    sorted(a.node, b.node) < 0 \/ (sorted(a.node, b.node) = 0 /\ a.at < b.at)

\* the nodes of a list of nodes with their indices, without the indices
unindexed(s) == [i \in 1..Len(s) |-> s[i].node]

\* this.ring.sort(sorted), a stable sort
sort(s) ==
    unindexed(SortSeq([i \in 1..Len(s) |-> [node |-> s[i], at |-> i]], before))


\* the doubles for which (w / total) * v * n falls just below the integer
\* w * v * n / total (IEEE 754; all there are for w <= 4, total <= 12, n <= 5 and v <= 8 or
\* v = 40)
FloorLoss(w, total, v, n) ==
    IF <<w, total, v, n>> \in {<<1, 3, 7, 3>>, <<2, 3, 7, 3>>, <<2, 6, 7, 3>>,
                               <<4, 6, 7, 3>>, <<3, 9, 7, 3>>, <<4, 12, 7, 3>>}
    THEN 1 ELSE 0

\* Math.floor(percentage * vnodes * servers.length)
floorLength(w, total, v, n) == ((w * v * n) \div total) - FloorLoss(w, total, v, n)

RECURSIVE reduce(_)
\* servers.reduce(total + server.weight, 0)
reduce(srv) == IF srv = <<>> THEN 0 ELSE reduce(SubSeq(srv, 1, Len(srv) - 1)) + srv[Len(srv)].weight

\* self.vnodes[server.string] || self.vnode
vnodesFor(self, server) ==
    IF Truthy(MapGet(self.vnodes, server.string))
    THEN MapGet(self.vnodes, server.string) ELSE self.vnode

\* lengthOf with self.vnode for every server, its own vnodes setting ignored
lengthOfBase(self, server) ==
    floorLength(server.weight, reduce(self.servers), self.vnode,
                Len(self.servers))

\* the number of digests taken for one server
lengthOf(self, server) ==
    floorLength(server.weight, reduce(self.servers), vnodesFor(self, server),
                Len(self.servers))

\* each with its inner loop one replica short (j < replicas - 1)
eachOneShort(self, server) ==
    IF lengthOf(self, server) <= 0 THEN <<>> ELSE
    [t \in 1..(lengthOf(self, server) * (self.replicas - 1)) |->
        LET i == (t - 1) \div (self.replicas - 1)
            j == (t - 1) % (self.replicas - 1)
            x == digest(self.algorithm, Chars(server.string) \o <<45>> \o Decimal(i))
        IN  Node(hashvalue_hash(At(x, 3 + j * 4), At(x, 2 + j * 4),
                                At(x, 1 + j * 4), At(x, j * 4)),
                 server.string)]

\* the nodes one server places, in the order the loops place them
each(self, server) ==
    IF lengthOf(self, server) <= 0 THEN <<>> ELSE
    [t \in 1..(lengthOf(self, server) * self.replicas) |->
        LET i == (t - 1) \div self.replicas
            j == (t - 1) % self.replicas
            x == digest(self.algorithm, Chars(server.string) \o <<45>> \o Decimal(i))
        IN  Node(hashvalue_hash(At(x, 3 + j * 4), At(x, 2 + j * 4),
                                At(x, 1 + j * 4), At(x, j * 4)),
                 server.string)]

RECURSIVE forEach(_, _)
\* the nodes servers.forEach(each) places, for the first n servers
forEach(self, n) ==
    IF n = 0 THEN <<>> ELSE forEach(self, n - 1) \o each(self, self.servers[n])

\* self.ring[index] = ... for index = 0, 1, ...: the placed nodes overwrite
\* the front of the ring
placed(self) ==
    LET nodes == forEach(self, Len(self.servers))
    IN  nodes \o SubSeq(self.ring, Len(nodes) + 1, Len(self.ring))

\* HashRing.prototype.continuum
continuum(self) ==
    IF Len(self.servers) = 0 THEN self
    ELSE LET r == sort(placed(self))
         IN  [self EXCEPT !.ring = r, !.size = Len(r)]

\* the number of digests a full run of continuum takes
digests(self) == Len(forEach(self, Len(self.servers))) \div self.replicas

\* continuum when the n-th call of the digest function throws: the nodes of
\* the digests before it are on the ring, which is neither sorted nor
\* measured (this.size is left as it was)
continuumThrows(self, n) ==
    LET nodes == SubSeq(forEach(self, Len(self.servers)), 1,
                        (n - 1) * self.replicas)
    IN  [self EXCEPT
            !.ring = nodes \o SubSeq(self.ring, Len(nodes) + 1, Len(self.ring))]

---------------------------------------------------------------------------
(* Lookup *)

\* findPass with hashValue < middle for hashValue <= middle in the test for a hit
findPassStrict(self, h, lo, hi) ==
    LET mid == (lo + hi) \div 2
    IN  IF mid = self.size
        THEN [done |-> TRUE, ret |-> 0, via |-> "end", low |-> lo, high |-> hi]
        ELSE LET middle == At(self.ring, mid).value
                 prev   == IF mid = 0 THEN 0 ELSE At(self.ring, mid - 1).value
                 lo2    == IF middle < h THEN mid + 1 ELSE lo
                 hi2    == IF middle < h THEN hi ELSE mid - 1
             IN  IF h < middle /\ h > prev
                 THEN [done |-> TRUE, ret |-> mid, via |-> "match",
                       low |-> lo, high |-> hi]
                 ELSE IF lo2 > hi2
                 THEN [done |-> TRUE, ret |-> 0, via |-> "crossed",
                       low |-> lo2, high |-> hi2]
                 ELSE [done |-> FALSE, ret |-> 0, via |-> "",
                       low |-> lo2, high |-> hi2]

\* findPass with high = mid for high = mid - 1
findPassWide(self, h, lo, hi) ==
    LET mid == (lo + hi) \div 2
    IN  IF mid = self.size
        THEN [done |-> TRUE, ret |-> 0, via |-> "end", low |-> lo, high |-> hi]
        ELSE LET middle == At(self.ring, mid).value
                 prev   == IF mid = 0 THEN 0 ELSE At(self.ring, mid - 1).value
                 lo2    == IF middle < h THEN mid + 1 ELSE lo
                 hi2    == IF middle < h THEN hi ELSE mid
             IN  IF h <= middle /\ h > prev
                 THEN [done |-> TRUE, ret |-> mid, via |-> "match",
                       low |-> lo, high |-> hi]
                 ELSE IF lo2 > hi2
                 THEN [done |-> TRUE, ret |-> 0, via |-> "crossed",
                       low |-> lo2, high |-> hi2]
                 ELSE [done |-> FALSE, ret |-> 0, via |-> "",
                       low |-> lo2, high |-> hi2]

\* one pass through the body of find's while (true): either a return
\* (done, with the value and the return statement taken) or the narrowed
\* bounds of the next pass
findPass(self, h, lo, hi) ==
    LET mid == (lo + hi) \div 2
    IN  IF mid = self.size
        THEN [done |-> TRUE, ret |-> 0, via |-> "end", low |-> lo, high |-> hi]
        ELSE LET middle == At(self.ring, mid).value
                 prev   == IF mid = 0 THEN 0 ELSE At(self.ring, mid - 1).value
                 lo2    == IF middle < h THEN mid + 1 ELSE lo
                 hi2    == IF middle < h THEN hi ELSE mid - 1
             IN  IF h <= middle /\ h > prev
                 THEN [done |-> TRUE, ret |-> mid, via |-> "match",
                       low |-> lo, high |-> hi]
                 ELSE IF lo2 > hi2
                 THEN [done |-> TRUE, ret |-> 0, via |-> "crossed",
                       low |-> lo2, high |-> hi2]
                 ELSE [done |-> FALSE, ret |-> 0, via |-> "",
                       low |-> lo2, high |-> hi2]

RECURSIVE findFrom(_, _, _, _)
\* the while (true) loop of find, from the bounds lo and hi
findFrom(self, h, lo, hi) ==
    LET p == findPass(self, h, lo, hi)
    IN  IF p.done THEN p ELSE findFrom(self, h, p.low, p.high)

\* HashRing.prototype.find
find(self, h) == findFrom(self, h, 0, self.size).ret

\* this.ring[this.find(this.hashValue(key))], undefined past the end
nodeFor(self, key) ==
    LET i == find(self, hashValue(self.algorithm, key))
    IN  IF i < Len(self.ring) THEN At(self.ring, i).server ELSE "undefined"

\* the value HashRing.prototype.get returns ("undefined" for undefined)
get(self, key) ==
    IF key \in DOMAIN self.cache THEN self.cache[key] ELSE nodeFor(self, key)

\* this.cache.set(key, value) with `out` the entry the bounded cache drops
\* to make room (any entry: the eviction order is the cache's own business)
cacheSet(c, key, value, out) ==
    IF key \in DOMAIN c \/ Cardinality(DOMAIN c) < maxCacheSize
    THEN MapSet(c, key, value)
    ELSE MapSet(MapDel(c, out), key, value)

\* the object HashRing.prototype.get leaves behind
getThen(self, key, out) ==
    IF key \in DOMAIN self.cache \/ nodeFor(self, key) = "undefined" THEN self
    ELSE [self EXCEPT !.cache = cacheSet(self.cache, key, nodeFor(self, key), out)]

\* the nodes range passes, in order: from position to the end of the ring,
\* then from index 0 up to position
walk(self, position) ==
    SubSeq(self.ring, position + 1, Len(self.ring)) \o
    SubSeq(self.ring, 1, Least(position, Len(self.ring)))

\* collect with the test of servers.indexOf left out
collectAll(nodes, acc, length, unique) ==
    LET n == Least(Len(nodes), IF length > Len(acc) THEN length - Len(acc) ELSE Len(nodes))
    IN  acc \o [i \in 1..n |-> nodes[i].server]

RECURSIVE collect(_, _, _, _)
\* the bodies of range's two loops over the nodes still to pass, `acc` the
\* servers pushed so far
collect(nodes, acc, length, unique) ==
    IF nodes = <<>> THEN acc
    ELSE LET server == Head(nodes).server
             pushed == IF unique /\ \E i \in 1..Len(acc) : acc[i] = server
                       THEN acc ELSE Append(acc, server)
         IN  IF Len(pushed) = length THEN pushed
             ELSE collect(Tail(nodes), pushed, length, unique)

\* range starting its walk at index 0, whatever the key
rangeFromStart(self, key, amount, unique) ==
    IF self.size = 0 THEN <<>>
    ELSE collect(walk(self, 0), <<>>,
                 IF Truthy(amount) THEN amount ELSE Len(self.servers),
                 unique \in {"true", "undefined"})

\* HashRing.prototype.range; amount (the parameter size) is undefined or a
\* number, unique is "undefined", "true" or "false"
range(self, key, amount, unique) ==
    IF self.size = 0 THEN <<>>
    ELSE collect(walk(self, find(self, hashValue(self.algorithm, key))), <<>>,
                 IF Truthy(amount) THEN amount ELSE Len(self.servers),
                 unique \in {"true", "undefined"})

---------------------------------------------------------------------------
(* Mutations *)

\* reset without its call of this.cache.reset()
resetKeepCache(self) == [self EXCEPT !.ring = <<>>, !.size = 0]

\* reset clearing the servers and the vnodes too, as end does
resetServers(self) ==
    [self EXCEPT !.ring = <<>>, !.size = 0, !.cache = EmptyMap,
                 !.vnodes = EmptyMap, !.servers = <<>>]

\* HashRing.prototype.reset
reset(self) == [self EXCEPT !.ring = <<>>, !.size = 0, !.cache = EmptyMap]

\* HashRing.prototype.end
end(self) == [reset(self) EXCEPT !.vnodes = EmptyMap, !.servers = <<>>]

\* parse(servers).vnodes: the vnodes extension's value for every server
parseVnodes(srv) ==
    [id \in IdsOf(srv) |->
        LET i == CHOOSE i \in 1..Len(srv) :
                     srv[i].string = id /\ \A j \in (i + 1)..Len(srv) : srv[j].string # id
        IN  srv[i].vnodes]

RECURSIVE merge(_, _)
\* connections[server.string] = server for every server of the list not in
\* `skip`: a later record of an id replaces an earlier one where that stood
merge(srv, skip) ==
    IF srv = <<>> THEN <<>>
    ELSE LET front == merge(SubSeq(srv, 1, Len(srv) - 1), skip)
             s     == srv[Len(srv)]
         IN  IF s.string \in skip THEN front
             ELSE IF s.string \in IdsOf(front)
             THEN [i \in 1..Len(front) |->
                      IF front[i].string = s.string THEN s ELSE front[i]]
             ELSE Append(front, s)

\* addReset without the test `server.string in connections`: a server given
\* to add replaces the one of its id
addResetLastWins(self, more) ==
    LET connections == merge(self.servers \o more, {})
    IN  reset([self EXCEPT !.vnodes = parseVnodes(connections),
                           !.servers = connections])

\* HashRing.prototype.add up to its call of continuum
addReset(self, more) ==
    LET mine        == merge(self.servers, {})
        connections == mine \o merge(more, IdsOf(mine))
    IN  reset([self EXCEPT !.vnodes = parseVnodes(connections),
                           !.servers = connections])

\* HashRing.prototype.add
add(self, more) == continuum(addReset(self, more))

\* removeReset without `delete this.vnodes[connection.string]`
removeResetKeepVnodes(self, server) ==
    reset([self EXCEPT
        !.servers = SelectSeq(self.servers, LAMBDA s : s.string # server)])

\* HashRing.prototype.remove up to its call of continuum
removeReset(self, server) ==
    reset([self EXCEPT
        !.vnodes = MapDel(self.vnodes, server),
        !.servers = SelectSeq(self.servers, LAMBDA s : s.string # server)])

\* remove with the test of its map inverted: only `server` is kept
removeInverted(self, server) ==
    continuum(reset([self EXCEPT
        !.vnodes = MapDel(self.vnodes, server),
        !.servers = SelectSeq(self.servers, LAMBDA s : s.string = server)]))

\* remove without the cache cleared
removeKeepCache(self, server) ==
    continuum([removeReset(self, server) EXCEPT !.cache = self.cache])

\* remove without its call of continuum
removeNoRebuild(self, server) == removeReset(self, server)

\* HashRing.prototype.remove
remove(self, server) == continuum(removeReset(self, server))

\* swap without its pass over the cache
swapKeepCache(self, from, to) ==
    [self EXCEPT
        !.ring = IF self.ring = <<>> THEN <<>> ELSE
                 [i \in 1..Len(self.ring) |->
                     IF self.ring[i].server = from
                     THEN [self.ring[i] EXCEPT !.server = to] ELSE self.ring[i]],
        !.vnodes = MapDel(MapSet(self.vnodes, to, MapGet(self.vnodes, from)), from),
        !.servers = IF self.servers = <<>> THEN <<>> ELSE
                    [i \in 1..Len(self.servers) |->
                        IF self.servers[i].string = from
                        THEN [self.servers[i] EXCEPT !.string = to, !.addr = to]
                        ELSE self.servers[i]]]

\* swap relabelling only the first node of `from` it meets on the ring
swapFirstNode(self, from, to) ==
    [self EXCEPT
        !.ring = IF self.ring = <<>> THEN <<>> ELSE
                 [i \in 1..Len(self.ring) |->
                     IF /\ self.ring[i].server = from
                        /\ \A j \in 1..(i - 1) : self.ring[j].server # from
                     THEN [self.ring[i] EXCEPT !.server = to] ELSE self.ring[i]],
        !.cache = [k \in DOMAIN self.cache |->
                      IF self.cache[k] = from THEN to ELSE self.cache[k]],
        !.vnodes = MapDel(MapSet(self.vnodes, to, MapGet(self.vnodes, from)), from),
        !.servers = IF self.servers = <<>> THEN <<>> ELSE
                    [i \in 1..Len(self.servers) |->
                        IF self.servers[i].string = from
                        THEN [self.servers[i] EXCEPT !.string = to, !.addr = to]
                        ELSE self.servers[i]]]

\* HashRing.prototype.swap
swap(self, from, to) ==
    [self EXCEPT
        !.ring = IF self.ring = <<>> THEN <<>> ELSE
                 [i \in 1..Len(self.ring) |->
                     IF self.ring[i].server = from
                     THEN [self.ring[i] EXCEPT !.server = to] ELSE self.ring[i]],
        !.cache = [k \in DOMAIN self.cache |->
                      IF self.cache[k] = from THEN to ELSE self.cache[k]],
        !.vnodes = MapDel(MapSet(self.vnodes, to, MapGet(self.vnodes, from)), from),
        !.servers = IF self.servers = <<>> THEN <<>> ELSE
                    [i \in 1..Len(self.servers) |->
                        IF self.servers[i].string = from
                        THEN [self.servers[i] EXCEPT !.string = to, !.addr = to]
                        ELSE self.servers[i]]]

\* function HashRing(servers, algorithm, options)
HashRing(srv, alg, vnodeCount, compatibility) ==
    continuum([ring |-> <<>>, size |-> 0,
               vnodes |-> parseVnodes(srv), servers |-> srv,
               cache |-> EmptyMap,
               vnode |-> vnodeCount,
               replicas |-> IF compatibility = "hash_ring" THEN 3 ELSE 4,
               algorithm |-> alg])

---------------------------------------------------------------------------
(* The object and the calls made on it *)

\* The ring is the one continuum builds for the servers and vnodes as they
\* are.
Rebuilt(self) == self.ring = continuum(reset(self)).ring

\* Every server but `server` places as many nodes without it.
SameShares(self, server) ==
    LET without == [self EXCEPT
                       !.vnodes = MapDel(self.vnodes, server),
                       !.servers = SelectSeq(self.servers,
                                             LAMBDA s : s.string # server)]
    IN  \A i \in 1..Len(without.servers) :
            lengthOf(without, without.servers[i]) =
            lengthOf(self, without.servers[i])

\* The ring is the one continuum builds for the servers and vnodes as they
\* are, and every server but `server` places as many nodes without it.
Settled(self, server) == Rebuilt(self) /\ SameShares(self, server)

\* The ring is the one continuum builds for the servers and vnodes as they
\* are, no two servers have one id, and vnodes holds every server's own
\* setting, as parse reads it.
Built(self) ==
    /\ Rebuilt(self)
    /\ \A i, j \in 1..Len(self.servers) :
           self.servers[i].string = self.servers[j].string => i = j
    /\ self.vnodes = parseVnodes(self.servers)

\* the HashRing object
this ==
    [ring |-> ring, size |-> size, servers |-> servers, vnodes |-> vnodes,
     cache |-> cache, vnode |-> vnode, replicas |-> replicas,
     algorithm |-> algorithm]

\* the object becomes `self`
Becomes(self) ==
    /\ ring' = self.ring
    /\ size' = self.size
    /\ servers' = self.servers
    /\ vnodes' = self.vnodes
    /\ cache' = self.cache
    /\ vnode' = self.vnode
    /\ replicas' = self.replicas
    /\ algorithm' = self.algorithm

\* what parse makes of one server given with a weight and a vnodes setting
Descriptors ==
    {[string |-> "a", addr |-> "a", weight |-> 1, vnodes |-> 0],
     [string |-> "a", addr |-> "a", weight |-> 2, vnodes |-> 0],
     [string |-> "b", addr |-> "b", weight |-> 1, vnodes |-> 0],
     [string |-> "b", addr |-> "b", weight |-> 1, vnodes |-> 3],
     [string |-> "c", addr |-> "c", weight |-> 1, vnodes |-> 0]}

\* lists of at most n servers, no id twice
ServerLists(n) ==
    {srv \in UNION {[1..m -> Descriptors] : m \in 0..n} :
        \A i, j \in 1..Len(srv) : srv[i].string = srv[j].string => i = j}

FindIdle ==
    /\ fh = 0 /\ low = 0 /\ high = 0 /\ fpc = "idle"
    /\ fres = [ret |-> 0, via |-> ""]

Init ==
    /\ \E srv \in ServerLists(MaxInit), vc \in VnodeCounts, set \in Settings :
          LET alg == set[1]
              compatibility == set[2]
          IN
          /\ ring = HashRing(srv, alg, vc, compatibility).ring
          /\ size = HashRing(srv, alg, vc, compatibility).size
          /\ servers = HashRing(srv, alg, vc, compatibility).servers
          /\ vnodes = HashRing(srv, alg, vc, compatibility).vnodes
          /\ cache = HashRing(srv, alg, vc, compatibility).cache
          /\ vnode = HashRing(srv, alg, vc, compatibility).vnode
          /\ replicas = HashRing(srv, alg, vc, compatibility).replicas
          /\ algorithm = HashRing(srv, alg, vc, compatibility).algorithm
    /\ last = [op |-> "new", a |-> "", b |-> "", known |-> FALSE, kept |-> FALSE]
    /\ swaps = 0
    /\ FindIdle

Get ==
    \E key \in Keys, out \in Keys :
        /\ out \in DOMAIN cache \/ Cardinality(DOMAIN cache) < maxCacheSize
        /\ Becomes(getThen(this, key, out))
        /\ last' = [op |-> "get", a |-> key, b |-> "", known |-> FALSE, kept |-> FALSE]
        /\ UNCHANGED <<fh, low, high, fpc, fres, swaps>>

Add ==
    \E built \in {Built(this)} : \E d \in Descriptors :
        /\ Becomes(add(this, <<d>>))
        /\ last' = [op |-> "add", a |-> d.string, b |-> "",
                    known |-> d.string \in IdsOf(servers), kept |-> built]
        /\ UNCHANGED <<fh, low, high, fpc, fres, swaps>>

Remove ==
    \E rebuilt \in {Rebuilt(this)} : \E server \in Ids :
        /\ Becomes(remove(this, server))
        /\ last' = [op |-> "remove", a |-> server, b |-> "",
                    known |-> server \in IdsOf(servers),
                    kept |-> rebuilt /\ SameShares(this, server)]
        /\ UNCHANGED <<fh, low, high, fpc, fres, swaps>>

Swap ==
    \E from \in Ids, to \in Ids :
        /\ swaps < MaxSwaps /\ swaps' = swaps + 1
        /\ Becomes(swap(this, from, to))
        /\ last' = [op |-> "swap", a |-> from, b |-> to,
                    known |-> from \in IdsOf(servers), kept |-> FALSE]
        /\ UNCHANGED <<fh, low, high, fpc, fres>>

Reset ==
    /\ Becomes(reset(this))
    /\ last' = [op |-> "reset", a |-> "", b |-> "", known |-> FALSE, kept |-> FALSE]
    /\ UNCHANGED <<fh, low, high, fpc, fres, swaps>>

End ==
    /\ Becomes(end(this))
    /\ last' = [op |-> "end", a |-> "", b |-> "", known |-> FALSE, kept |-> FALSE]
    /\ UNCHANGED <<fh, low, high, fpc, fres, swaps>>

Next == Get \/ Add \/ Remove \/ Swap \/ Reset \/ End

Spec == Init /\ [][Next]_vars

\* add(servers) with a digest function that throws on its n-th call
AddThrows ==
    \E d \in Descriptors : \E n \in 1..Least(MaxThrowAt, digests(addReset(this, <<d>>))) :
        /\ Becomes(continuumThrows(addReset(this, <<d>>), n))
        /\ last' = [op |-> "add throws", a |-> d.string, b |-> "",
                    known |-> d.string \in IdsOf(servers), kept |-> FALSE]
        /\ UNCHANGED <<fh, low, high, fpc, fres, swaps>>

\* remove(server) with a digest function that throws on its n-th call
RemoveThrows ==
    \E server \in Ids : \E n \in 1..Least(MaxThrowAt, digests(removeReset(this, server))) :
        /\ Becomes(continuumThrows(removeReset(this, server), n))
        /\ last' = [op |-> "remove throws", a |-> server, b |-> "",
                    known |-> server \in IdsOf(servers), kept |-> FALSE]
        /\ UNCHANGED <<fh, low, high, fpc, fres, swaps>>

NextThrows == Get \/ Add \/ Remove \/ AddThrows \/ RemoveThrows

\* the object used through get, add and remove with a digest function that
\* may throw
SpecThrows == Init /\ [][NextThrows]_vars

---------------------------------------------------------------------------
(* A server added, and removed again *)

\* options['vnode count'] in use where servers are added: the one of
\* VnodeCounts, and the least for which Math.floor is 1 below
\* weight / total * vnodes * servers.length in exact arithmetic
GrowVnodeCounts == VnodeCounts \cup {7}

InitGrow ==
    /\ \E srv \in ServerLists(MaxInit - 1), vc \in GrowVnodeCounts, set \in Settings :
          \E self \in {HashRing(srv, set[1], vc, set[2])} :
              /\ ring = self.ring
              /\ size = self.size
              /\ servers = self.servers
              /\ vnodes = self.vnodes
              /\ cache = self.cache
              /\ vnode = self.vnode
              /\ replicas = self.replicas
              /\ algorithm = self.algorithm
    /\ last = [op |-> "new", a |-> "", b |-> "", known |-> FALSE, kept |-> FALSE]
    /\ swaps = 0
    /\ FindIdle

\* add(server) of a server whose id is new to the object
AddNew ==
    \E built \in {Built(this)} : \E d \in Descriptors :
        /\ d.string \notin IdsOf(servers)
        /\ Becomes(add(this, <<d>>))
        /\ last' = [op |-> "add", a |-> d.string, b |-> "",
                    known |-> FALSE, kept |-> built, before |-> this]
        /\ UNCHANGED <<fh, low, high, fpc, fres, swaps>>

\* remove(server) of the server the call before added
RemoveAdded ==
    /\ last.op = "add"
    /\ Becomes(remove(this, last.a))
    /\ last' = [last EXCEPT !.op = "remove", !.known = TRUE]
    /\ UNCHANGED <<fh, low, high, fpc, fres, swaps>>

NextGrow == Get \/ AddNew \/ RemoveAdded \/ Reset

\* the object with servers added to it and removed again at once
SpecGrow == InitGrow /\ [][NextGrow]_vars

---------------------------------------------------------------------------
(* find, pass by pass, on any sorted ring *)

\* every ring of at most MaxLen nodes in ascending order (ties allowed)
SortedRings ==
    {[i \in 1..Len(vs) |-> Node(vs[i], "a")] :
        vs \in {s \in UNION {[1..m -> 0..CoordMax] : m \in 0..MaxLen} :
                   \A i, j \in 1..Len(s) : i < j => s[i] <= s[j]}}

InitFind ==
    /\ ring \in SortedRings
    /\ size = Len(ring)
    /\ servers = <<[string |-> "a", addr |-> "a", weight |-> 1, vnodes |-> 0]>>
    /\ vnodes = [id \in {"a"} |-> 0]
    /\ cache = EmptyMap
    /\ vnode = 2 /\ replicas = 4 /\ algorithm = "h1"
    /\ last = [op |-> "new", a |-> "", b |-> "", known |-> FALSE, kept |-> FALSE]
    /\ swaps = 0
    /\ FindIdle

\* find(hashValue) is entered
FindCall ==
    /\ fpc = "idle"
    /\ \E h \in 0..(CoordMax + 1) : fh' = h
    /\ low' = 0 /\ high' = size /\ fpc' = "loop"
    /\ UNCHANGED <<ring, size, servers, vnodes, cache, vnode, replicas,
                   algorithm, last, swaps, fres>>

\* one pass through the loop: a return, or narrowed bounds
FindLoop ==
    /\ fpc = "loop"
    /\ LET p == findPass(this, fh, low, high)
       IN  /\ low' = p.low /\ high' = p.high
           /\ fpc' = IF p.done THEN "done" ELSE "loop"
           /\ fres' = IF p.done THEN [ret |-> p.ret, via |-> p.via] ELSE fres
    /\ UNCHANGED <<ring, size, servers, vnodes, cache, vnode, replicas,
                   algorithm, last, swaps, fh>>

\* the caller takes the result
FindReturn ==
    /\ fpc = "done"
    /\ fpc' = "idle" /\ fh' = 0 /\ low' = 0 /\ high' = 0
    /\ fres' = [ret |-> 0, via |-> ""]
    /\ UNCHANGED <<ring, size, servers, vnodes, cache, vnode, replicas,
                   algorithm, last, swaps>>

NextFind == FindCall \/ FindLoop \/ FindReturn

SpecFind == InitFind /\ [][NextFind]_vars

\* find runs to its end without yielding: a pass that can be taken is taken
SpecFindFair == InitFind /\ [][NextFind]_vars /\ WF_vars(FindLoop)

---------------------------------------------------------------------------
(* C1 *)

\* the index the ring's nearest successor of h has: the first node with a
\* coordinate >= h, and 0 (the wrap to the start) when there is none
Successor(r, h) ==
    IF \E i \in 0..(Len(r) - 1) : At(r, i).value >= h
    THEN CHOOSE i \in 0..(Len(r) - 1) :
             /\ At(r, i).value >= h
             /\ \A j \in 0..(i - 1) : At(r, j).value < h
    ELSE 0

\* C1: on every non-empty ascending ring and for every coordinate h, find(h)
\* returns the smallest index whose coordinate is >= h, and 0 when h is
\* above every coordinate; the return taken when the bounds cross
\* (low > high) is only taken where index 0 is that answer.
C1_FindIsSuccessor ==
    (fpc = "done" /\ ring # <<>>) =>
        /\ fres.ret = Successor(ring, fh)
        /\ fres.ret = find(this, fh)
        /\ fres.via = "crossed" => Successor(ring, fh) = 0

\* find has returned 0 through the crossed bounds on a ring of several
\* distinct coordinates
C1_Witness ==
    /\ fpc = "done" /\ fres.via = "crossed" /\ fres.ret = 0
    /\ Len(ring) >= 3 /\ ring[1].value < ring[Len(ring)].value

---------------------------------------------------------------------------
(* C2 *)

\* C2 as claimed: whatever the weights and vnode settings, remove(s) leaves
\* get(k) as it was for every key k that s did not own (stated for objects
\* swap was never called on).
C2_RemoveMovesOnlyOwnKeys ==
    [][(last'.op = "remove" /\ swaps = 0) =>
          \A k \in LookupKeys :
              get(this, k) # last'.a => get(this', k) = get(this, k)]_vars

\* C2, amended: remove(s) of a server s leaves get(k) as it was for every
\* key k that s did not own, provided the object is Settled: the ring is the one the continuum builds for the
\* servers as they are and every other server places as many nodes without
\* s as with it (so with equal weights and an exact floor; with unequal
\* weights the other servers' shares, and their nodes, change).
C2_RemoveMovesOnlyOwnKeysWhenSettled ==
    [][(last'.op = "remove" /\ last'.known /\ last'.kept) =>
          \A k \in LookupKeys :
              get(this, k) # last'.a => get(this', k) = get(this, k)]_vars

\* a server of a settled ring of three was removed, and the two left both
\* own keys
C2_Witness ==
    /\ last.op = "remove" /\ last.known /\ last.kept
    /\ Len(servers) = 2
    /\ \E k1, k2 \in LookupKeys : get(this, k1) # get(this, k2)

---------------------------------------------------------------------------
(* C3 *)

\* C3: every cache entry key -> s has the ring non-empty and the node at
\* find(hashValue(key)) labelled s, so get(key) is the same from the cache
\* as from the ring.
C3_CacheConsistent ==
    \A key \in DOMAIN cache :
        /\ ring # <<>>
        /\ find(this, hashValue(algorithm, key)) < Len(ring)
        /\ At(ring, find(this, hashValue(algorithm, key))).server = cache[key]
        /\ nodeFor(this, key) = get(this, key)

\* a swap from a server to a new id has rewritten a cached entry
C3_Witness ==
    /\ last.op = "swap" /\ last.known /\ last.a # last.b
    /\ Cardinality({i \in 1..Len(servers) : servers[i].string = last.b}) = 1
    /\ \E key \in DOMAIN cache : cache[key] = last.b
    /\ Len(servers) >= 2

---------------------------------------------------------------------------
(* C4 *)

\* C4: after swap(from, to), get(k) is `to` where it was `from` and is what
\* it was otherwise, for cached and uncached keys alike; the ring keeps its
\* length and every node its coordinate.
C4_SwapRelabels ==
    [][last'.op = "swap" =>
          /\ \A k \in LookupKeys :
                 get(this', k) = IF get(this, k) = last'.a THEN last'.b
                                 ELSE get(this, k)
          /\ Len(ring') = Len(ring)
          /\ \A i \in 1..Len(ring) : ring'[i].value = ring[i].value]_vars

\* a swap to another id was made with a key cached; its server and another
\* both own keys afterwards
C4_Witness ==
    /\ last.op = "swap" /\ last.known /\ last.a # last.b
    /\ cache # EmptyMap
    /\ \E k1, k2 \in LookupKeys :
           get(this, k1) = last.b /\ get(this, k2) \notin {last.b, "undefined"}

---------------------------------------------------------------------------
(* C5 *)

\* C5 as claimed: swap(from, to) with `from` no server's id changes neither
\* the ring, the servers, the vnodes (keys and values) nor the cache.
C5_SwapUnknownIsNoOp ==
    [][(last'.op = "swap" /\ ~last'.known) =>
          /\ ring' = ring /\ size' = size
          /\ servers' = servers
          /\ vnodes' = vnodes
          /\ cache' = cache]_vars

---------------------------------------------------------------------------
(* C6 *)

\* C6 as claimed: when the digest function throws while add or remove
\* rebuilds the ring, the ring is left without nodes and get(key) is
\* absent for every key.
C6_ThrowLeavesRingEmpty ==
    last.op \in {"add throws", "remove throws"} =>
        /\ ring = <<>>
        /\ \A k \in LookupKeys : get(this, k) = "undefined"

---------------------------------------------------------------------------
(* C7 *)

\* C7 as claimed: the keys of vnodes are ids of servers.
C7_VnodeKeysAreServers == DOMAIN vnodes \subseteq IdsOf(servers)

---------------------------------------------------------------------------
(* C8, C9, C10 *)

\* floor((w_i / W) * vnodes_i * serverCount) for the i-th server, vnodes_i
\* its entry of the vnodes map or else the base count
Wanted(i) ==
    LET W[n \in 0..Len(servers)] ==
            IF n = 0 THEN 0 ELSE W[n - 1] + servers[n].weight
        id == servers[i].string
        v  == IF id \in DOMAIN vnodes /\ vnodes[id] > 0 THEN vnodes[id] ELSE vnode
    IN  (servers[i].weight * v * Len(servers)) \div W[Len(servers)]

\* the sum of Wanted over the servers
WantedTotal ==
    LET T[n \in 0..Len(servers)] == IF n = 0 THEN 0 ELSE T[n - 1] + Wanted(n)
    IN  T[Len(servers)]

\* the number of ring nodes labelled id
Labelled(id) == Cardinality({i \in 1..Len(ring) : ring[i].server = id})

C9_RingSorted ==
    \A i, j \in 1..Len(ring) : i < j => ring[i].value <= ring[j].value

\* a swap was made on a ring of three servers with several coordinates and
\* with two servers on one coordinate
C9_Witness ==
    /\ last.op = "swap" /\ last.known /\ Len(servers) = 3
    /\ Cardinality({ring[i].value : i \in 1..Len(ring)}) >= 4
    /\ \E i, j \in 1..Len(ring) :
           ring[i].value = ring[j].value /\ ring[i].server # ring[j].server

Ketama480 ==
    LET three == [i \in 1..3 |->
                     [string |-> <<"a", "b", "c">>[i], addr |-> <<"a", "b", "c">>[i],
                      weight |-> 1, vnodes |-> 0]]
        nodes == placed([ring |-> <<>>, size |-> 0, servers |-> three,
                         vnodes |-> parseVnodes(three), cache |-> EmptyMap,
                         vnode |-> 40, replicas |-> 4, algorithm |-> "h1"])
    IN  /\ Len(nodes) = 480
        /\ \A id \in {"a", "b", "c"} :
               Cardinality({i \in 1..480 : nodes[i].server = id}) = 160

---------------------------------------------------------------------------
(* C11 *)

\* the ids labelling the ring's nodes
Labels == {ring[i].server : i \in 1..Len(ring)}

\* the ring passed circularly from index p (0-based), as a list of ids
Circle(p) == [i \in 1..Len(ring) |-> ring[((p + i - 1) % Len(ring)) + 1].server]

\* r, a list of n ids wanted, has pairwise distinct ids, min(n, ids) of
\* them, and its i-th id is the first on the walk w that is none of the
\* i - 1 before it
FirstOf(w, r, n, ids) ==
    /\ \A i, j \in 1..Len(r) : r[i] = r[j] => i = j
    /\ Len(r) = Least(n, ids)
    /\ \A i \in 1..Len(r) :
           \E p \in 1..Len(w) :
               /\ w[p] = r[i]
               /\ \A q \in 1..(p - 1) : \E j \in 1..(i - 1) : r[j] = w[q]

\* FirstOf for the lists r1, r2, r3, r4 of 1, 2, 3 and 4 ids wanted
FirstsOf(w, r1, r2, r3, r4, ids) ==
    /\ FirstOf(w, r1, 1, ids) /\ FirstOf(w, r2, 2, ids)
    /\ FirstOf(w, r3, 3, ids) /\ FirstOf(w, r4, 4, ids)

\* C11: on a non-empty ring, for every key and every n >= 1,
\* range(key, n, true) is a list of pairwise distinct ids, of length
\* min(n, number of ids labelling nodes), and its i-th id is the first id
\* on the circular walk from index find(hashValue(key)) that is none of
\* the i - 1 before it.
C11_RangeDistinctInWalkOrder ==
    ring # <<>> =>
        \A key \in LookupKeys :
            FirstsOf(Circle(find(this, hashValue(algorithm, key))),
                     range(this, key, 1, "true"), range(this, key, 2, "true"),
                     range(this, key, 3, "true"), range(this, key, 4, "true"),
                     Cardinality(Labels))

\* three servers label the ring, and for some key the walk starts past the
\* middle of the ring, passes a server twice before it meets the third and
\* wraps to index 0 before it has met all three
C11_Witness ==
    /\ Cardinality(Labels) = 3
    /\ \E key \in LookupKeys :
           LET p == find(this, hashValue(algorithm, key))
               w == Circle(p)
           IN  /\ 2 * p > Len(ring)
               /\ range(this, key, 3, "true") # <<w[1], w[2], w[3]>>
               /\ Len(range(this, key, 3, "true")) = 3
               /\ {w[i] : i \in 1..(Len(ring) - p)} # Labels

---------------------------------------------------------------------------
(* C12 *)

\* C12 as claimed: add(s) with the id of s a server's already leaves the
\* servers, the vnodes and the ring as they were (stated for objects swap
\* was never called on).
C12_AddKnownChangesNothing ==
    [][(last'.op = "add" /\ last'.known /\ swaps = 0) =>
          /\ servers' = servers
          /\ vnodes' = vnodes
          /\ ring' = ring]_vars

\* C12, amended: add(s) with the id of s a server's already, on an object
\* that is Built (its ring the one continuum builds for the servers as they
\* are, no id twice among the servers, vnodes holding the servers' own
\* settings), leaves the servers (ids, weights, order), the vnodes, the ring
\* and size as they were, whatever weight or vnodes setting s carries; and
\* after any add(s), a second add of any server of that id changes nothing
\* at all.
C12_AddKnownKeepsBuilt ==
    /\ [][(last'.op = "add" /\ last'.known /\ last'.kept) =>
             /\ servers' = servers
             /\ vnodes' = vnodes
             /\ ring' = ring /\ size' = size]_vars
    /\ [](last.op = "add" =>
             \A d \in Descriptors :
                 d.string = last.a => add(this, <<d>>) = this)

\* add was called for a, one of three servers of a Built object, b among
\* them with a vnodes setting of its own; the servers given for a carry the
\* weights 1 and 2, a has weight 2
C12_Witness ==
    /\ last.op = "add" /\ last.known /\ last.kept /\ last.a = "a"
    /\ Len(servers) = 3 /\ ring # <<>>
    /\ \E i \in 1..3 : servers[i].string = "a" /\ servers[i].weight = 2
    /\ "b" \in DOMAIN vnodes /\ vnodes["b"] = 3

---------------------------------------------------------------------------
(* C13 *)

\* C13 as claimed: remove(x) with x no server's id leaves the servers, the
\* vnodes and the ring as they were, and get(key) with them (stated for
\* objects swap was never called on).
C13_RemoveUnknownChangesNothing ==
    [][(last'.op = "remove" /\ ~last'.known /\ swaps = 0) =>
          /\ servers' = servers
          /\ vnodes' = vnodes
          /\ ring' = ring
          /\ \A k \in LookupKeys : get(this', k) = get(this, k)]_vars

\* C13, amended: remove(x) with x no server's id leaves the servers as they
\* were; with x no key of vnodes either, and on an object whose ring is the
\* one continuum builds for the servers and vnodes as they are, it leaves
\* the vnodes, the ring (values, labels, order) and size as they were, and
\* get(key) with them.
C13_RemoveUnknownKeepsBuilt ==
    [][(last'.op = "remove" /\ ~last'.known) =>
          /\ servers' = servers
          /\ (last'.kept /\ last'.a \notin DOMAIN vnodes) =>
                 /\ vnodes' = vnodes
                 /\ ring' = ring /\ size' = size
                 /\ \A k \in LookupKeys : get(this', k) = get(this, k)]_vars

\* remove was called for an id unknown to an object of two servers with its
\* ring as continuum builds it, both servers owning keys, one key cached
\* before the call
C13_Witness ==
    /\ last.op = "remove" /\ ~last.known /\ last.kept
    /\ last.a \notin DOMAIN vnodes
    /\ Len(servers) = 2
    /\ \E k1, k2 \in LookupKeys :
           get(this, k1) # get(this, k2) /\ get(this, k1) # "undefined"
                                         /\ get(this, k2) # "undefined"

---------------------------------------------------------------------------
(* C14 *)

\* C14: whenever the ring is empty, get(key) returns undefined for every
\* key and leaves the object, its cache included, as it was.
C14_EmptyRingGetAbsent ==
    ring = <<>> =>
        \A key \in LookupKeys :
            /\ get(this, key) = "undefined"
            /\ \A out \in Keys : getThen(this, key, out) = this

\* get was called on an object that has servers and an empty ring (after a
\* reset), and left the cache empty
C14_Witness ==
    /\ last.op = "get" /\ ring = <<>> /\ Len(servers) >= 2
    /\ cache = EmptyMap

---------------------------------------------------------------------------
(* C15 *)

\* C15: reset() leaves the ring and the cache empty and size 0, and the
\* servers (ids, weights, order), the vnodes, the base vnode count, the
\* replicas and the algorithm as they were.
C15_ResetFrame ==
    [][last'.op = "reset" =>
          /\ ring' = <<>> /\ size' = 0 /\ cache' = EmptyMap
          /\ servers' = servers
          /\ vnodes' = vnodes
          /\ vnode' = vnode
          /\ replicas' = replicas
          /\ algorithm' = algorithm]_vars

\* reset was called on an object of three servers, one of them renamed by a
\* swap and one with a vnodes setting of its own
C15_Witness ==
    /\ last.op = "reset" /\ ring = <<>> /\ cache = EmptyMap
    /\ Len(servers) = 3 /\ swaps = 1
    /\ \E id \in DOMAIN vnodes : vnodes[id] = 3

---------------------------------------------------------------------------
(* C16 *)

\* C16: find(h) returns for every ascending ring (the empty ring and rings
\* with equal coordinates among them) and every h, and on a non-empty ring
\* the index it returns is one of 0..size - 1.
C16_FindTerminatesInRange ==
    /\ (fpc = "loop") ~> (fpc = "done")
    /\ [](fpc = "done" =>
             IF ring = <<>> THEN fres.ret = 0
             ELSE fres.ret \in 0..(size - 1))

\* find has returned the last index of a ring of MaxLen nodes with two on
\* one coordinate, after a pass that raised low
C16_Witness ==
    /\ fpc = "done" /\ Len(ring) = MaxLen /\ fres.ret = size - 1 /\ low > 0
    /\ \E i \in 1..(Len(ring) - 1) : ring[i].value = ring[i + 1].value

---------------------------------------------------------------------------
(* C17 *)

\* C17: in every state reached by get, add, remove, swap, reset and end, a
\* get(key) that is not undefined is the id of one of the servers; right
\* after remove(s) no key's get is s, and right after swap(from, to) with
\* from # to no key's get is `from`, keys cached before the call included.
C17_GetIsAServer ==
    \A k \in LookupKeys :
        /\ get(this, k) # "undefined" => get(this, k) \in IdsOf(servers)
        /\ last.op = "remove" => get(this, k) # last.a
        /\ (last.op = "swap" /\ last.a # last.b) => get(this, k) # last.a

\* a server was removed from an object on which a swap had renamed a
\* server; the two servers left both own keys
C17_Witness ==
    /\ last.op = "remove" /\ last.known /\ swaps = 1
    /\ Len(servers) = 2 /\ servers[1].string # servers[2].string
    /\ \A i \in 1..2 : \E k \in LookupKeys : get(this, k) = servers[i].string

---------------------------------------------------------------------------
(* C20 *)

\* the lists r1, r2 and r3 start with the id g
HeadsAre(g, r1, r2, r3) ==
    /\ r1 # <<>> /\ r1[1] = g
    /\ r2 # <<>> /\ r2[1] = g
    /\ r3 # <<>> /\ r3[1] = g

\* C20: in every state with a non-empty ring and for every key, the first
\* id of range(key, size, unique), size a number >= 1 or left out and
\* unique true, false or left out, is get(key), be that taken from the cache
\* or from the ring.
C20_RangeHeadIsGet ==
    ring # <<>> =>
        \A key \in LookupKeys :
            HeadsAre(get(this, key),
                     range(this, key, undefined, "undefined"),
                     range(this, key, 1, "true"),
                     range(this, key, 2, "false"))

\* a key is cached and another is not; both are found past index 0 of the
\* ring and belong to servers other than the one of the ring's first node
C20_Witness ==
    /\ ring # <<>>
    /\ \E k1 \in DOMAIN cache, k2 \in LookupKeys \ DOMAIN cache :
           /\ find(this, hashValue(algorithm, k1)) > 0
           /\ find(this, hashValue(algorithm, k2)) > 0
           /\ range(this, k1, undefined, "false")[1] = cache[k1]
           /\ cache[k1] # ring[1].server
           /\ get(this, k2) # ring[1].server


---------------------------------------------------------------------------
(* C18 *)

\* every server has one weight
EqualWeights == \A i, j \in 1..Len(servers) : servers[i].weight = servers[j].weight

\* C18 as claimed: with every server, the added one included, of one
\* weight, get(k) after add(x) of a new id x is x or what get(k) was before
\* (stated for an object that was Built when add was called).
C18_AddMovesKeysOnlyToNew ==
    (last.op = "add" /\ last.kept /\ EqualWeights) =>
        \A k \in LookupKeys :
            get(this, k) \in {last.a, get(last.before, k)}

---------------------------------------------------------------------------
(* C19 *)

\* C19 as claimed: add(x) of a new id x followed by remove(x) leaves the
\* servers, the vnodes and the ring as they were before the add, and
\* get(key) with them.
C19_AddRemoveRestores ==
    last.op = "remove" =>
        /\ servers = last.before.servers
        /\ vnodes = last.before.vnodes
        /\ ring = last.before.ring
        /\ \A k \in LookupKeys : get(this, k) = get(last.before, k)

\* C19, amended: add(x) of a new id x followed by remove(x), on an object
\* that was Built before the add, leaves the servers, the vnodes, the ring
\* (values, labels, order) and size as they were before the add, and
\* get(key) with them.
C19_AddRemoveRestoresBuilt ==
    (last.op = "remove" /\ last.kept) =>
        /\ servers = last.before.servers
        /\ vnodes = last.before.vnodes
        /\ ring = last.before.ring /\ size = last.before.size
        /\ \A k \in LookupKeys : get(this, k) = get(last.before, k)

\* a third server was added to two of unequal shares and removed again;
\* with the third, keys had moved
C19_Witness ==
    /\ last.op = "remove" /\ last.kept /\ Len(servers) = 2
    /\ servers[1].weight # servers[2].weight
    /\ last.before.cache # EmptyMap
    /\ \E k1, k2 \in LookupKeys : get(this, k1) # get(this, k2)

===========================================================================
